---- MODULE Spec2Model ----
(***************************************************************************)
(* The annotation session engine of humannotator: the Annotator object     *)
(* (humannotator.py), the data adapters and their registry (data/data.py)  *)
(* and the boolean vocabulary of config.py.  The Interface and the         *)
(* Annotations ledger are imported by humannotator.py from modules that    *)
(* are not among the source files; they are modelled from the              *)
(* specification (sections 4.2 and 4.3) and marked as such.                *)
(***************************************************************************)
EXTENDS Integers, Sequences, FiniteSets, TLC

VARIABLES
    self,       \* the Annotator's __dict__: attribute name -> value
    pc,         \* position of the caller inside Annotator.__call__
    active,     \* interface.active of the Interface built by the current call
    error,      \* the error the interface is showing for the current item
    presented,  \* history: ids the renderer displayed during the current call
    call,       \* history: the arguments and the entry state of the last call
    last,       \* history: the operation that made the last step
    file        \* the pickle file: <<>>, or one record of the pickled state
                \* and (history) the session it was taken from

vars == <<self, pc, active, error, presented, call, last, file>>

----------------------------------------------------------------------------
(* Bounds *)

\* Longest input collection; ids range over 0..MaxLen, so that MaxLen itself
\* is an id no list adapter knows.
MaxLen == 2

----------------------------------------------------------------------------
(* Values *)

None == "None"

IdUniverse == 0 .. MaxLen

RECURSIVE SeqsUpTo(_, _)
\* All sequences over S of length at most n.
SeqsUpTo(S, n) ==
    IF n = 0 THEN {<<>>}
    ELSE LET shorter == SeqsUpTo(S, n - 1)
         IN  shorter \cup {Append(s, x) : s \in shorter, x \in S}

Range(s) == {s[k] : k \in DOMAIN s}

\* s is a subsequence of t (order kept, nothing added).
RECURSIVE IsSubseq(_, _)
IsSubseq(s, t) ==
    IF s = <<>> THEN TRUE
    ELSE IF t = <<>> THEN FALSE
    ELSE IF Head(s) = Head(t) THEN IsSubseq(Tail(s), Tail(t))
    ELSE IsSubseq(s, Tail(t))

----------------------------------------------------------------------------
(* data/data.py: the adapters and their registry *)

\* An input collection, by what isinstance() says of it: the registered kinds
\* it is an instance of, its length, and its keys (a mapping's keys in
\* iteration order, a frame's index labels).
RawList(n)   == [kinds |-> {"Sequence"},  size |-> n,      keys |-> <<>>]
RawDict(ks)  == [kinds |-> {"Mapping"},   size |-> Len(ks), keys |-> ks]
RawFrame(ks) == [kinds |-> {"DataFrame"}, size |-> Len(ks), keys |-> ks]
RawOther     == [kinds |-> {},            size |-> 0,      keys |-> <<>>]

\* A collection that is an instance of more than one registered kind (a class
\* that derives from, or is registered with, several of them).
RawMixed(kinds, ks) == [kinds |-> kinds, size |-> Len(ks), keys |-> ks]

\* No adapter: the value of Annotator._data when it is None.
NoData == [cls |-> None, ids |-> <<>>]

\* class Data_List: ids = list(range(0, len(data)))
Data_List(raw) == [cls |-> "Data_List", ids |-> [k \in 1 .. raw.size |-> k - 1]]

\* class Data_Dict: ids = data.keys()
Data_Dict(raw) == [cls |-> "Data_Dict", ids |-> raw.keys]

\* class Data_DataFrame: ids = self.data.index
Data_DataFrame(raw) == [cls |-> "Data_DataFrame", ids |-> raw.keys]

\* The registry dict, in the order the @register decorators filled it.
registry ==
    << [cls |-> "Data_List",      kind |-> "Sequence"],
       [cls |-> "Data_Dict",      kind |-> "Mapping"],
       [cls |-> "Data_DataFrame", kind |-> "DataFrame"] >>

construct(cls, raw) ==
    CASE cls = "Data_List"      -> Data_List(raw)
      [] cls = "Data_Dict"      -> Data_Dict(raw)
      [] cls = "Data_DataFrame" -> Data_DataFrame(raw)

\* load_data: the first registered class whose kind the input is an instance
\* of; falling off the loop returns None.
load_data(raw) ==
    LET hits == {j \in DOMAIN registry : registry[j].kind \in raw.kinds}
    IN  IF hits = {} THEN NoData
        ELSE LET first == CHOOSE j \in hits : \A k \in hits : j <= k
             IN  construct(registry[first].cls, raw)

\* Data.__len__
len(d) == Len(d.ids)

\* Data_DataFrame.__getitem__: data.loc[id, item_cols] raises KeyError for a
\* label that is not in the index.
getitem(d, id) == IF id \in Range(d.ids) THEN "fields" ELSE "KeyError"

----------------------------------------------------------------------------
(* config.py: the boolean vocabulary *)

\* BOOLEAN_STATES: the strings that read as True and those that read as False.
BOOLEAN_TRUE  == {"true", "t", "1", "yes", "on"}
BOOLEAN_FALSE == {"false", "f", "0", "no", "off"}
BOOLEAN_STATES == [w \in BOOLEAN_TRUE \cup BOOLEAN_FALSE |-> w \in BOOLEAN_TRUE]

----------------------------------------------------------------------------
(* The ledger (humannotator.core.annotations, not among the source files;   *)
(* after the specification, section 4.2)                                    *)

\* The session's tasks: two boolean questions per item.
Tasks == <<"flag", "political">>

\* What a reviewer may type for each task; "maybe" is no boolean.
RawAnswers ==
    [flag : {"true", "no", "maybe"}, political : {"yes", "maybe"}]

\* A task's validator: a boolean task accepts the words of BOOLEAN_STATES.
valid(raw) == raw \in DOMAIN BOOLEAN_STATES

\* annotations.data.index: the ids that have a row, in row order.
index(ledger) == [k \in DOMAIN ledger |-> ledger[k].id]

\* ledger.has(id)
has(ledger, id) == id \in Range(index(ledger))

\* The row a valid answer set makes.
row(id, ans) ==
    [id |-> id, flag |-> BOOLEAN_STATES[ans.flag],
     political |-> BOOLEAN_STATES[ans.political]]

\* An answer set is committed only when every task's answer is valid.
all_valid(ans) == \A t \in Range(Tasks) : valid(ans[t])

\* ledger.upsert(id, answers) of a valid answer set: the full row replaces
\* the id's row where it stands, or is appended after the last row.
upsert(ledger, id, ans) ==
    IF has(ledger, id)
    THEN [k \in DOMAIN ledger |->
             IF ledger[k].id = id THEN row(id, ans) ELSE ledger[k]]
    ELSE Append(ledger, row(id, ans))

\* Mutant: the answers are written task by task, so the valid answers of an
\* answer set are in the ledger when an invalid one is refused.
commit_Partial(ledger, id, ans) ==
    IF all_valid(ans) THEN upsert(ledger, id, ans)
    ELSE LET old == IF has(ledger, id)
                    THEN CHOOSE r \in Range(ledger) : r.id = id
                    ELSE [id |-> id, flag |-> FALSE, political |-> FALSE]
             new == [id |-> id,
                     flag |-> IF valid(ans.flag)
                              THEN BOOLEAN_STATES[ans.flag] ELSE old.flag,
                     political |-> IF valid(ans.political)
                                   THEN BOOLEAN_STATES[ans.political]
                                   ELSE old.political]
         IN  IF has(ledger, id)
             THEN [k \in DOMAIN ledger |->
                      IF ledger[k].id = id THEN new ELSE ledger[k]]
             ELSE Append(ledger, new)

\* ledger.upsert(id, answers) as the interface calls it: every answer is
\* validated first, and an answer set with an invalid answer writes nothing.
commit(ledger, id, ans) ==
    IF all_valid(ans) THEN upsert(ledger, id, ans) ELSE ledger

----------------------------------------------------------------------------
(* humannotator.py: the Annotator *)

\* setattr(obj, name, value) on the object's __dict__.
setattr(s, k, v) == (k :> v) @@ s

hasattr(s, k) == k \in DOMAIN s

\* Arguments of the data setter: None, a raw collection, or a Data object.
ArgNone    == [tag |-> "None", raw |-> RawOther, obj |-> NoData]
ArgRaw(r)  == [tag |-> "raw",  raw |-> r,        obj |-> NoData]
ArgData(d) == [tag |-> "Data", raw |-> RawOther, obj |-> d]

\* Mutant: detaching the data also empties the ledger.
data_setter_Reset(s, arg) ==
    IF arg.tag = "None"
    THEN setattr(setattr(s, "_data", NoData), "_annotations",
                 [s._annotations EXCEPT !.data = <<>>])
    ELSE IF arg.tag # "Data" THEN setattr(s, "_data", load_data(arg.raw))
    ELSE setattr(s, "_data", arg.obj)

\* Annotator.data (setter)
data_setter(s, arg) ==
    IF arg.tag = "None" THEN setattr(s, "_data", NoData)
    ELSE IF arg.tag # "Data" THEN setattr(s, "_data", load_data(arg.raw))
    ELSE setattr(s, "_data", arg.obj)

\* Annotator.annotations (setter), given a list of tasks: an empty ledger.
annotations_setter(s, tasks) ==
    setattr(s, "_annotations", [tasks |-> tasks, data |-> <<>>])

\* Annotator.annotated
annotated(s) == s._annotations.data

\* Annotator.merged: None without data; else the frame's rows joined with
\* the annotations on the index (the ids that are in both), a list or a
\* mapping having no columns to rename.
merged(s) ==
    IF s._data = NoData THEN None
    ELSE IF s._data.cls # "Data_DataFrame" THEN "AttributeError"
    ELSE SelectSeq(s._data.ids, LAMBDA id : has(annotated(s), id))

\* Annotator.__init__
init(tasks, data, user, name, save_data) ==
    LET s0 == ("kwargs" :> <<>>)
        s1 == setattr(s0, "user", user)
        s2 == setattr(s1, "name", name)
        s3 == annotations_setter(s2, tasks)
        s4 == data_setter(s3, data)
    IN  setattr(s4, "save_data", save_data)

\* Mutant: the redo flag is not consulted and nothing is skipped.
WorkList_NoSkip(ids, ledger, redo) == ids

\* Mutant: the redo flag is not consulted and annotated ids are always skipped.
WorkList_AlwaysSkip(ids, ledger, redo) ==
    SelectSeq(ids, LAMBDA id : id \notin Range(index(ledger)))

\* Mutant: the ids are filtered against the ledger as the previous call found
\* it, not as it is now.
WorkList_Stale(ids, ledger, redo) ==
    IF ~redo
    THEN SelectSeq(ids, LAMBDA id : id \notin Range(index(call.before)))
    ELSE ids

\* Mutant: ids the adapter does not know are left out of the work list.
WorkList_DropUnknown(ids, ledger, redo) ==
    LET known == SelectSeq(ids, LAMBDA id : id \in Range(self._data.ids))
    IN  IF ~redo
        THEN SelectSeq(known, LAMBDA id : id \notin Range(index(ledger)))
        ELSE known

\* Mutant: the ids that are not skipped are sorted.
WorkList_Sorted(ids, ledger, redo) ==
    LET kept == IF ~redo
                THEN SelectSeq(ids, LAMBDA id : id \notin Range(index(ledger)))
                ELSE ids
    IN  SortSeq(kept, LAMBDA a, b : a < b)

\* __call__, lines 133-140: skip annotated ids, unless redo is True.
WorkList(ids, ledger, redo) ==
    IF ~redo
    THEN SelectSeq(ids, LAMBDA id : id \notin Range(index(ledger)))
    ELSE ids

\* The ids argument of __call__: None, or a list.
IdsNone    == [given |-> FALSE, list |-> <<>>]
IdsList(l) == [given |-> TRUE,  list |-> l]

\* __call__, lines 130-131: ids defaults to the adapter's ids.
Requested(s, ids) == IF ~ids.given THEN s._data.ids ELSE ids.list

\* The user arguments that are not truthy: None and the empty string.
Falsy == {None, ""}

\* __call__, lines 125-126: a truthy user argument replaces the user.
ResolveUser(s, user) ==
    IF user \notin Falsy THEN setattr(s, "user", user) ELSE s

\* Mutant: the call does not look whether data is attached.
NoDataLoaded_Unchecked(s) == FALSE

\* __call__, line 127, through the data property: no adapter is attached.
NoDataLoaded(s) == s._data = NoData

\* The id under the cursor.
current(s) == s.ids[s.i + 1]

\* Mutant: the loop has no break and goes on after a stop.
LoopNext_NoBreak(s, act) ==
    IF s.i + 1 < Len(s.ids)
    THEN [self |-> setattr(s, "i", s.i + 1), pc |-> "present"]
    ELSE [self |-> s, pc |-> IF act THEN "completed" ELSE "aborted"]

\* Mutant: the step to the next entry passes over one entry.
LoopNext_SkipOne(s, act) ==
    IF ~act THEN [self |-> s, pc |-> "aborted"]
    ELSE IF s.i + 2 < Len(s.ids)
         THEN [self |-> setattr(s, "i", s.i + 2), pc |-> "present"]
         ELSE [self |-> s, pc |-> "completed"]

\* Mutant: the work list is filtered as the loop goes (a generator in place
\* of the list), so an entry whose id has got a row meanwhile is passed over.
LoopNext_Lazy(s, act) ==
    IF ~act THEN [self |-> s, pc |-> "aborted"]
    ELSE LET later == {k \in DOMAIN s.ids :
                          /\ k > s.i + 1
                          /\ call.redo \/ ~has(annotated(s), s.ids[k])}
         IN  IF later # {}
             THEN LET k == CHOOSE j \in later : \A m \in later : j <= m
                  IN  [self |-> setattr(s, "i", k - 1), pc |-> "present"]
             ELSE [self |-> s, pc |-> "completed"]

\* __call__, lines 143-147, after interface(id) has returned: break when the
\* interface is no longer active, else step to the next entry or fall off
\* the end of the list.
LoopNext(s, act) ==
    IF ~act THEN [self |-> s, pc |-> "aborted"]
    ELSE IF s.i + 1 < Len(s.ids)
         THEN [self |-> setattr(s, "i", s.i + 1), pc |-> "present"]
         ELSE [self |-> s, pc |-> "completed"]

\* __call__, lines 143-144, entering the loop over self.ids.
LoopEnter(s) ==
    IF s.ids = <<>> THEN [self |-> s, pc |-> "completed"]
    ELSE [self |-> setattr(s, "i", 0), pc |-> "present"]

\* Mutant: the save_data flag is not consulted and the data is always kept.
getstate_KeepData(s) == s

\* Mutant: the annotations are pickled as a fresh ledger over the same tasks.
getstate_FreshLedger(s) ==
    LET state == setattr(s, "_annotations",
                         [s._annotations EXCEPT !.data = <<>>])
    IN  IF ~s.save_data THEN [k \in DOMAIN state \ {"_data"} |-> state[k]]
        ELSE state

\* Annotator.__getstate__
getstate(s) ==
    IF ~s.save_data THEN [k \in DOMAIN s \ {"_data"} |-> s[k]] ELSE s

\* Annotator.__setstate__
setstate(state) ==
    IF ~hasattr(state, "_data") THEN setattr(state, "_data", NoData) ELSE state

----------------------------------------------------------------------------
(* The interface (humannotator.interface, not among the source files; after *)
(* the specification, section 4.3 step 5 and the failure semantics)         *)

\* data.fields(id): the adapter's lookup of the item to display; it fails for
\* an id the adapter does not have, a frame's lookup being __getitem__.
fields(d, id) ==
    IF d.cls = "Data_DataFrame" THEN getitem(d, id)
    ELSE IF id \in Range(d.ids) THEN "fields" ELSE "KeyError"

---------------------------------------------------------------------------------------------------------------------------------------------------
(* Inputs *)

\* [k, k-1, .., 0]: keys whose iteration order is not the sorted order.
Descending(n) == [k \in 1 .. n |-> n - k]

\* [1, .., n-1]: index labels that leave 0 out.
Labels(n) == [k \in 1 .. n - 1 |-> k]

\* The longest list, and a frame whose index is 1 .. MaxLen-1.
EngineInputs ==
    {ArgRaw(RawList(MaxLen)), ArgRaw(RawFrame(Labels(MaxLen)))}

\* The sets of two or three registered kinds.
MixedKinds ==
    {kinds \in SUBSET {"Sequence", "Mapping", "DataFrame"} :
        Cardinality(kinds) >= 2}

\* One input of every shape the setter tells apart, and one of every mix of
\* kinds.
ShapeInputs ==
    {ArgNone, ArgRaw(RawOther), ArgRaw(RawList(MaxLen)),
     ArgRaw(RawDict(Descending(MaxLen))),
     ArgData(Data_DataFrame(RawFrame(Labels(MaxLen))))}
    \cup {ArgRaw(RawMixed(kinds, Labels(MaxLen))) : kinds \in MixedKinds}


\* The answer sets with at most one valid word per task.
OneWordAnswers == {ans \in RawAnswers : ans.flag # "no"}

IdsInputs == {IdsNone} \cup {IdsList(l) : l \in SeqsUpTo(IdUniverse, MaxLen)}

\* The history of a session no call has been made on.
NoCall ==
    [given |-> FALSE, user |-> None, redo |-> FALSE, ran |-> FALSE,
     requested |-> <<>>, before |-> <<>>, detached |-> FALSE]

\* History: the data has been detached (None assigned to it) and nothing but
\* assignments to data has happened since.
Detached == last = "data" /\ call.detached

----------------------------------------------------------------------------
(* Operations *)

Running == {"present", "await"}

\* annotator.data = data
SetData(arg) ==
    /\ pc \notin Running
    /\ self' = data_setter(self, arg)
    /\ pc' = "idle"
    /\ active' = TRUE
    /\ error' = FALSE
    /\ presented' = <<>>
    /\ call' = [NoCall EXCEPT !.detached = arg.tag = "None" \/ Detached]
    /\ last' = "data"
    /\ UNCHANGED file

\* annotator(ids, user, redo), up to the first interface(id)
Call(ids, user, redo) ==
    /\ pc \notin Running
    /\ last' = "call"
    /\ LET s1 == ResolveUser(self, user)
       IN  IF NoDataLoaded(s1)
           THEN /\ self' = s1
                /\ call' = [given |-> ids.given, user |-> user,
                            redo |-> redo, ran |-> FALSE,
                            requested |-> <<>>, before |-> annotated(self),
                            detached |-> Detached]
                /\ UNCHANGED <<pc, active, error, presented, file>>
           ELSE LET req  == Requested(s1, ids)
                    s2   == setattr(s1, "ids", WorkList(req, annotated(s1), redo))
                    next == LoopEnter(s2)
                IN  /\ self' = next.self
                    /\ pc' = next.pc
                    /\ call' = [given |-> ids.given, user |-> user,
                                redo |-> redo, ran |-> TRUE,
                                requested |-> req, before |-> annotated(self),
                                detached |-> Detached]
                    /\ active' = TRUE
                    /\ error' = FALSE
                    /\ presented' = <<>>
                    /\ UNCHANGED file

\* interface(id): the item is looked up and displayed, or the lookup raises
\* and the exception leaves __call__.
InterfaceCall ==
    /\ pc = "present"
    /\ last' = "interface"
    /\ IF fields(self._data, current(self)) = "KeyError"
       THEN /\ pc' = "failed"
            /\ UNCHANGED <<self, active, error, presented, call, file>>
       ELSE /\ pc' = "await"
            /\ presented' = Append(presented, current(self))
            /\ error' = FALSE
            /\ UNCHANGED <<self, active, call, file>>

\* The reviewer answers every task of the displayed item: a valid answer set
\* is committed and interface(id) returns; an invalid one is refused, the
\* error is shown and the same item is asked again.
Answer(ans) ==
    /\ pc = "await"
    /\ LET ledger == commit(annotated(self), current(self), ans)
           s1     == setattr(self, "_annotations",
                             [self._annotations EXCEPT !.data = ledger])
       IN  IF all_valid(ans)
           THEN LET next == LoopNext(s1, active)
                IN  /\ self' = next.self
                    /\ pc' = next.pc
                    /\ error' = FALSE
                    /\ last' = "answer"
                    /\ UNCHANGED <<active, presented, call, file>>
           ELSE /\ self' = s1
                /\ error' = TRUE
                /\ last' = "refuse"
                /\ UNCHANGED <<pc, active, presented, call, file>>

\* The reviewer gives the stop signal: nothing is committed for the item,
\* interface.active becomes False and interface(id) returns.
Stop ==
    /\ pc = "await"
    /\ active' = FALSE
    /\ LET next == LoopNext(self, FALSE)
       IN  /\ self' = next.self
           /\ pc' = next.pc
    /\ error' = FALSE
    /\ last' = "stop"
    /\ UNCHANGED <<presented, call, file>>

\* The caller inserts the key k in the mapping it gave as data: the keyed
\* adapter's ids are data.keys(), a view of that mapping (the adapter's own
\* copy is self.data), so the new key is the last of them.
MutateMapping(k) ==
    /\ pc \notin Running
    /\ self._data.cls = "Data_Dict"
    /\ k \notin Range(self._data.ids)
    /\ self' = setattr(self, "_data",
                       [self._data EXCEPT !.ids = Append(@, k)])
    /\ last' = "mutate"
    /\ UNCHANGED <<pc, active, error, presented, call, file>>

\* pickle.dump of the state: the keyed adapter's ids are a dict_keys view,
\* which pickle cannot pickle (TypeError); lists of ints and frame indexes it
\* can.  (The work list self.ids is a list after every call with redo false
\* and after every call over a list; the sessions that are saved make no
\* other call.)
Picklable(state) ==
    ~(hasattr(state, "_data") /\ state._data.cls = "Data_Dict")

\* annotator.save(filename): the file is opened for writing, which empties
\* it, and the state is dumped in it; when the dump raises, the exception
\* leaves save and the file holds no pickle.
Save ==
    /\ pc \notin Running
    /\ IF Picklable(getstate(self))
       THEN /\ file' = <<[state |-> getstate(self), source |-> self]>>
            /\ last' = "save"
       ELSE /\ file' = <<>>
            /\ last' = "save failed"
    /\ UNCHANGED <<self, pc, active, error, presented, call>>

\* annotator = Annotator.load(filename)
Load ==
    /\ pc \notin Running
    /\ file # <<>>
    /\ self' = setstate(file[1].state)
    /\ pc' = "idle"
    /\ active' = TRUE
    /\ error' = FALSE
    /\ presented' = <<>>
    /\ call' = NoCall
    /\ last' = "load"
    /\ UNCHANGED file

\* The state right after Annotator(tasks, data, user, name, save_data).
Constructed(data, user, save_data) ==
    /\ self = init(Tasks, data, user, "HUMANNOTATOR", save_data)
    /\ pc = "idle"
    /\ active = TRUE
    /\ error = FALSE
    /\ presented = <<>>
    /\ call = NoCall
    /\ last = "init"
    /\ file = <<>>

---------------------------------------------------------------------------------------------------------------------------------------------------
(* Spec, the run engine: a session over a list or a frame, any sequence of  *)
(* calls with any ids list and redo flag, the data being replaced between   *)
(* calls                                                                    *)

Init == \E data \in EngineInputs : Constructed(data, "alice", FALSE)

Next ==
    \/ \E arg \in EngineInputs : SetData(arg)
    \/ \E ids \in IdsInputs, redo \in BOOLEAN : Call(ids, None, redo)
    \/ InterfaceCall
    \/ \E ans \in OneWordAnswers : Answer(ans)
    \/ Stop

Spec == Init /\ [][Next]_vars

\* interface(id) returns: the reviewer gives a valid answer set or stops.
Returns ==
    \/ \E ans \in OneWordAnswers : all_valid(ans) /\ Answer(ans)
    \/ Stop

\* The ids arguments of the walks: none, every id of the universe from the
\* last known one down and then the one no list knows, and the same id at
\* every position.
WalkInputs ==
    {IdsNone, IdsList(Descending(MaxLen) \o <<MaxLen>>),
     IdsList([k \in 1 .. MaxLen |-> 0])}

NextLive ==
    \/ \E arg \in EngineInputs : SetData(arg)
    \/ \E ids \in WalkInputs, redo \in BOOLEAN : Call(ids, None, redo)
    \/ InterfaceCall
    \/ \E ans \in OneWordAnswers : Answer(ans)
    \/ Stop

\* The run engine when every call of the interface returns: __call__ is
\* synchronous, so the loop goes on to interface(id) whenever it stands
\* before it, and interface(id) comes back.
SpecLive ==
    Init /\ [][NextLive]_vars /\ WF_vars(InterfaceCall) /\ WF_vars(Returns)

---------------------------------------------------------------------------------------------------------------------------------------------------
(* SpecShapes, the session and its data: construction with any shape of     *)
(* data, data assignments of any shape, calls over all the adapter's ids    *)
(* by either user                                                           *)

InitShapes ==
    \E data \in ShapeInputs, user \in {None, "alice"} :
        Constructed(data, user, FALSE)

NextShapes ==
    \/ \E arg \in ShapeInputs : SetData(arg)
    \/ \E user \in {None, "bob"}, redo \in BOOLEAN : Call(IdsNone, user, redo)
    \/ InterfaceCall
    \/ \E ans \in OneWordAnswers : Answer(ans)
    \/ Stop

SpecShapes == InitShapes /\ [][NextShapes]_vars

----------------------------------------------------------------------------
(* SpecPersist, the session and its pickle: construction over the longest   *)
(* list with either save_data, calls over all its ids with every answer     *)
(* word, detaching and re-attaching the list, save and load                 *)

PersistInputs == {ArgNone, ArgRaw(RawList(MaxLen))}

InitPersist ==
    \E save_data \in BOOLEAN :
        Constructed(ArgRaw(RawList(MaxLen)), "alice", save_data)

NextPersist ==
    \/ \E arg \in PersistInputs : SetData(arg)
    \/ \E redo \in BOOLEAN : Call(IdsNone, None, redo)
    \/ InterfaceCall
    \/ \E ans \in RawAnswers : Answer(ans)
    \/ Stop
    \/ Save
    \/ Load

SpecPersist == InitPersist /\ [][NextPersist]_vars

----------------------------------------------------------------------------
(* SpecUsers, the session and its user: construction by one user, with or   *)
(* without data, calls with no user argument, an empty one or another       *)
(* user's name                                                              *)

\* The user the session is constructed with.
InitUser == "alice"

UsersInputs == EngineInputs \cup {ArgNone}

InitUsers == \E data \in UsersInputs : Constructed(data, InitUser, FALSE)

NextUsers ==
    \/ \E arg \in UsersInputs : SetData(arg)
    \/ \E user \in {None, "", "bob"}, redo \in BOOLEAN :
           Call(IdsNone, user, redo)
    \/ InterfaceCall
    \/ \E ans \in OneWordAnswers : Answer(ans)
    \/ Stop

SpecUsers == InitUsers /\ [][NextUsers]_vars

----------------------------------------------------------------------------
(* SpecAdapters, the session and the collections of its caller: lists and   *)
(* mappings of every length as data, calls over all the adapter's ids, the  *)
(* caller changing its mapping between calls                                *)

AdapterInputs ==
    {ArgRaw(RawList(n)) : n \in 0 .. MaxLen}
    \cup {ArgRaw(RawDict(Descending(n))) : n \in 0 .. MaxLen}

InitAdapters == \E data \in AdapterInputs : Constructed(data, "alice", FALSE)

NextAdapters ==
    \/ \E arg \in AdapterInputs : SetData(arg)
    \/ \E redo \in BOOLEAN : Call(IdsNone, None, redo)
    \/ InterfaceCall
    \/ \E ans \in OneWordAnswers : Answer(ans)
    \/ Stop
    \/ \E k \in IdUniverse : MutateMapping(k)

SpecAdapters == InitAdapters /\ [][NextAdapters]_vars

----------------------------------------------------------------------------
(* SpecSnapshot, the pickle and the shape of the data: construction over a  *)
(* list or a mapping with either save_data, runs over all the ids, the data *)
(* detached and attached again, save and load                               *)

SnapshotInputs ==
    {ArgRaw(RawList(MaxLen)), ArgRaw(RawDict(Descending(MaxLen)))}

InitSnapshot ==
    \E data \in SnapshotInputs, save_data \in BOOLEAN :
        Constructed(data, "alice", save_data)

NextSnapshot ==
    \/ \E arg \in SnapshotInputs \cup {ArgNone} : SetData(arg)
    \/ Call(IdsNone, None, FALSE)
    \/ InterfaceCall
    \/ \E ans \in OneWordAnswers : Answer(ans)
    \/ Stop
    \/ Save
    \/ Load

SpecSnapshot == InitSnapshot /\ [][NextSnapshot]_vars

----------------------------------------------------------------------------
(* Properties *)

\* The ids the adapter attached during the current call knows.
Known == Range(self._data.ids)

\* presented is a prefix of s.
IsPrefix(p, s) == Len(p) <= Len(s) /\ p = SubSeq(s, 1, Len(p))

\* C1: an id that had a ledger row when a call with redo=False began is not
\* presented at any point of that call, whether the ids were given or taken
\* from the adapter.
C1_NoReannotation ==
    (call.ran /\ ~call.redo) =>
        \A k \in DOMAIN presented : ~has(call.before, presented[k])

\* A call with redo=False over ids of which one had a row has run to its end
\* and presented something.
C1_Witness ==
    /\ call.ran /\ ~call.redo /\ call.given
    /\ pc = "completed"
    /\ presented # <<>>
    /\ \E id \in Range(call.requested) : has(call.before, id)

\* C2: a call with redo=True keeps every requested id in its work list (the
\* ids argument, or the adapter's ids when there is none), presents them in
\* that order, and has presented them all when it completes.
C2_RedoComplete ==
    (call.ran /\ call.redo) =>
        /\ self.ids = call.requested
        /\ ~call.given => call.requested = self._data.ids
        /\ IsPrefix(presented, call.requested)
        /\ pc = "completed" => presented = call.requested

\* A call with redo=True over ids that all had rows has presented them all.
C2_Witness ==
    /\ call.ran /\ call.redo
    /\ pc = "completed"
    /\ Len(call.requested) = MaxLen
    /\ \A id \in Range(call.requested) : has(call.before, id)
    /\ presented = call.requested

\* The run that ended in this state has ended without an exception.
Ended == pc \in {"completed", "aborted"}

\* The ids of this state's ledger.
Committed == Range(index(annotated(self)))

\* C3: a call with redo=False made after a run has ended starts a new run
\* whose work list is computed from the ledger as it is at that moment: it
\* holds no id that has a row by then (rows of the run that just ended
\* included) and every requested id that has none.
C3_Reentrant ==
    [][(Ended /\ last' = "call" /\ ~call'.redo) =>
          /\ call'.ran
          /\ pc' \in {"present", "completed"}
          /\ presented' = <<>>
          /\ \A id \in Range(self'.ids) : id \notin Committed
          /\ \A id \in Range(call'.requested) :
                 id \notin Committed => id \in Range(self'.ids)]_vars

\* Scenario A: over a list of MaxLen items of which all but the last had been
\* committed by earlier runs when it began, a call with redo=False has
\* presented the last item only.
C3_Witness ==
    /\ call.ran /\ ~call.redo /\ ~call.given
    /\ len(self._data) = MaxLen
    /\ index(call.before) = [k \in 1 .. MaxLen - 1 |-> k - 1]
    /\ presented = <<MaxLen - 1>>
    /\ pc = "completed"

\* The work-list positions after the cursor.
Remaining == {k \in DOMAIN self.ids : k > self.i + 1}

\* The id's row in a ledger, as a set: empty when it has none.
RowOf(ledger, id) == {ledger[k] : k \in {j \in DOMAIN ledger : ledger[j].id = id}}

\* A stop ends the run at once: the step of the stop leaves the loop in
\* Aborted and writes nothing, and in Aborted only the positions up to the
\* cursor have been presented.
StopEndsRun ==
    /\ pc = "aborted" =>
           /\ ~active
           /\ presented = SubSeq(self.ids, 1, self.i + 1)
    /\ last = "stop" => pc = "aborted"

\* C4 as amended: a stop ends the run at once in Aborted with no later
\* position presented; a remaining id that is at no earlier position of the
\* work list has the row it had when the call began, or still none; and a
\* call with redo=False over the same ids made next puts every remaining id
\* that has no row in its work list again.
C4_StopResumable ==
    /\ []StopEndsRun
    /\ [](pc = "aborted" =>
             \A k \in Remaining :
                 self.ids[k] \notin Range(presented) =>
                     RowOf(annotated(self), self.ids[k])
                         = RowOf(call.before, self.ids[k]))
    /\ [][(pc = "aborted" /\ last' = "call" /\ ~call'.redo
              /\ call'.requested = call.requested) =>
             \A k \in Remaining :
                 self.ids[k] \notin Committed =>
                     self.ids[k] \in Range(self'.ids)]_vars

\* C4 as stated: after a stop every remaining id has the row it had when the
\* call began, or none, and is in the work list of a call with redo=False
\* over the same ids made next.
C4_AsStated ==
    /\ []StopEndsRun
    /\ [](pc = "aborted" =>
             \A k \in Remaining :
                 RowOf(annotated(self), self.ids[k])
                     = RowOf(call.before, self.ids[k]))
    /\ [][(pc = "aborted" /\ last' = "call" /\ ~call'.redo
              /\ call'.requested = call.requested) =>
             \A k \in Remaining : self.ids[k] \in Range(self'.ids)]_vars

\* A run with redo=False over MaxLen rowless items was stopped at its first
\* item, the others remaining.
C4_Witness ==
    /\ pc = "aborted"
    /\ ~call.redo
    /\ Len(self.ids) = MaxLen
    /\ presented = <<self.ids[1]>>
    /\ Remaining # {}

\* The session's attributes other than the user.
Except(s, k) == [a \in DOMAIN s \ {k} |-> s[a]]

\* What the call does on a session with no adapter: it returns without
\* raising, starts no run and presents nothing; it leaves the ledger, the
\* work list, the cursor and every other attribute as they were, except that
\* a user argument, when one is given, replaces the session's user.
C5_NoDataNoOp ==
    [][(self._data = NoData /\ last' = "call") =>
          /\ ~call'.ran
          /\ pc' = pc
          /\ presented' = presented
          /\ active' = active
          /\ Except(self', "user") = Except(self, "user")
          /\ self'.user = IF call'.user # None THEN call'.user ELSE self.user]_vars

\* C5: a call on a session with no adapter starts no run, presents nothing
\* and leaves every attribute of the session as it was.
C5_AsStated ==
    [][(self._data = NoData /\ last' = "call") =>
          /\ pc' = pc
          /\ presented' = presented
          /\ self' = self]_vars

\* A call was made on a session that has no adapter and that earlier ran
\* over one: it has a ledger, a work list and a cursor to leave alone.
C5_Witness ==
    /\ last = "call"
    /\ ~call.ran
    /\ NoDataLoaded(self)
    /\ annotated(self) # <<>>
    /\ hasattr(self, "ids") /\ hasattr(self, "i")

\* The session the pickle file was saved from.
Source == file[1].source

\* The state is that of a session just loaded from a pickle saved without data.
LoadedBare == last = "load" /\ ~Source.save_data

Unknown == Range(call.requested) \ Known

\* Once reached, an id the adapter does not know fails the run: nothing the
\* adapter does not know is presented, a run does not complete over such an
\* id, a failed run stands at one, and no such id gains or loses a row.
UnknownFails ==
    call.ran =>
        /\ Range(presented) \subseteq Known
        /\ pc = "await" => current(self) \in Known
        /\ pc = "completed" => Range(self.ids) \subseteq Known
        /\ pc = "failed" => current(self) \notin Known
        /\ \A id \in Unknown :
               RowOf(annotated(self), id) = RowOf(call.before, id)

C9_OrderPreserved ==
    call.ran => IsSubseq(self.ids, call.requested)

\* With a ledger that is not empty, a call with redo=False has a work list
\* whose ids are not in increasing order.
C9_Witness ==
    /\ call.ran /\ ~call.redo
    /\ call.before # <<>>
    /\ Len(self.ids) >= 2
    /\ self.ids[1] > self.ids[2]

\* C10: an answer set with an invalid answer is refused without touching the
\* ledger: the row of the item is as it was (committed from before, or still
\* absent) and so are the rows committed earlier in the run; the run neither
\* ends nor moves on, and the same item is up again with the error shown.
C10_RefusalAtomic ==
    [][last' = "refuse" =>
          /\ annotated(self') = annotated(self)
          /\ pc = "await" /\ pc' = "await"
          /\ current(self') = current(self)
          /\ self'.i = self.i
          /\ presented' = presented
          /\ active'
          /\ error']_vars

\* In a redo run that has already rewritten a row, an answer set for an item
\* that has a row was refused.
C10_Witness ==
    /\ last = "refuse"
    /\ error
    /\ pc = "await"
    /\ call.redo
    /\ has(annotated(self), current(self))
    /\ self.i > 0
    /\ annotated(self) # call.before

\* The cursor attributes of a session's __dict__: the work list and the
\* position in it.
Cursor(s) == DOMAIN s \cap {"ids", "i"}

\* C11: the cursor is not persisted: a pickle saved after a run holds neither
\* the work list nor the position, and a session loaded from it carries
\* neither.
C11_AsStated ==
    /\ file # <<>> => Cursor(file[1].state) = {}
    /\ last = "load" => Cursor(self) = {}

\* A session that had run over its list and stood at the last position was
\* saved and loaded.
C11_Witness ==
    /\ last = "load"
    /\ Cursor(Source) = {"ids", "i"}
    /\ Source.i = MaxLen - 1
    /\ annotated(Source) # <<>>

\* The kind each variant is registered for.
KindOf ==
    [Data_DataFrame |-> "DataFrame", Data_Dict |-> "Mapping",
     Data_List |-> "Sequence"]

\* The adapter an order of precedence gives an input: that of the first
\* variant of the order whose kind the input is an instance of, or none.
ByPrecedence(order, raw) ==
    LET hits == {j \in DOMAIN order : KindOf[order[j]] \in raw.kinds}
    IN  IF hits = {} THEN NoData
        ELSE construct(order[CHOOSE j \in hits : \A k \in hits : j <= k], raw)

\* Every assignment of a raw collection to data selects the adapter by the
\* given order of precedence.
SelectsBy(order) ==
    \A arg \in ShapeInputs :
        (arg.tag = "raw" /\ SetData(arg)) =>
            self'._data = ByPrecedence(order, arg.raw)

\* What load_data does: the adapter is that of the first registered variant
\* whose kind matches the input, the order of registration being Sequential,
\* then Keyed, then Tabular.
RegistryOrderDecides ==
    [][SelectsBy(<<"Data_List", "Data_Dict", "Data_DataFrame">>)]_vars

\* C12: the adapter is that of the first variant whose kind matches the
\* input, in the precedence Tabular, then Keyed, then Sequential: an input
\* that matches more than one kind is given the earliest of these.
C12_AsStated ==
    [][SelectsBy(<<"Data_DataFrame", "Data_Dict", "Data_List">>)]_vars

\* A collection that is a mapping and a frame at once has been assigned, and
\* the session has the keyed adapter over its keys.
C12_Witness ==
    /\ last = "data"
    /\ self._data = Data_Dict(RawMixed({"Mapping", "DataFrame"}, Labels(MaxLen)))
    /\ self._data # NoData

\* The first n entries of the work list.
Walked(n) == SubSeq(self.ids, 1, n)

\* The items presented so far are the work-list positions before the cursor,
\* in order and once each (with the position under the cursor once it is
\* displayed); a run that completes has presented the whole list and got no
\* stop, a run that is aborted got one.
WalkInOrder ==
    call.ran =>
        /\ Len(presented) <= Len(self.ids)
        /\ pc \in {"present", "failed"} => presented = Walked(self.i)
        /\ pc \in {"await", "aborted"} => presented = Walked(self.i + 1)
        /\ pc = "completed" => presented = self.ids /\ active
        /\ pc = "aborted" => ~active

\* The cursor starts at 0 and moves by one, forward.
CursorStep ==
    /\ (last' = "call" /\ pc' = "present") => self'.i = 0
    /\ (pc \in Running /\ self'.i # self.i) => self'.i = self.i + 1

\* C13: a run presents the positions of its work list in order from
\* position 0, one at a time and each at most once; when every call of the
\* interface returns it ends after at most len(work list) presentations,
\* Completed when the list was walked to its end without a stop, Aborted
\* after a stop.
C13_WalkTerminates ==
    /\ []WalkInOrder
    /\ [][CursorStep]_vars
    /\ (pc \in Running ~> pc \in {"completed", "aborted", "failed"})

\* A run over MaxLen items has presented them all and completed with the
\* cursor on the last.
C13_Witness ==
    /\ call.ran
    /\ pc = "completed"
    /\ Len(presented) = MaxLen
    /\ self.i = MaxLen - 1

\* C14: assigning None to data leaves the ledger, the tasks, the user and
\* the name (every attribute but the adapter) as they were, and so does
\* assigning data again; a call with redo=False made after data has been
\* detached and attached again runs, and its work list is made of the
\* adapter's ids that have no row, the ids committed before being skipped.
C14_DetachKeepsLedger ==
    /\ [][SetData(ArgNone) =>
             /\ NoDataLoaded(self')
             /\ Except(self', "_data") = Except(self, "_data")]_vars
    /\ [][last' = "data" =>
             /\ self'._annotations = self._annotations
             /\ self'.user = self.user
             /\ self'.name = self.name]_vars
    /\ [][(Detached /\ ~NoDataLoaded(self) /\ last' = "call" /\ ~call'.redo) =>
             /\ call'.ran
             /\ annotated(self') = annotated(self)
             /\ \A id \in Range(self._data.ids) :
                    id \in Range(self'.ids) <=> ~has(annotated(self), id)]_vars

\* After commits the data was detached and a list attached again, and a call
\* with redo=False has run to its end over the items that had no row,
\* presenting only those.
C14_Witness ==
    /\ call.detached /\ call.ran /\ ~call.redo
    /\ pc = "completed"
    /\ call.before # <<>>
    /\ presented # <<>>
    /\ \A k \in DOMAIN presented : ~has(call.before, presented[k])
    /\ \E id \in Range(self._data.ids) : has(call.before, id)

\* What __call__ does with the user: a call with a non-empty user argument
\* makes it the session's user, for that run and from then on; a call with
\* no user argument, or an empty one, runs with the user the session has:
\* the one it was constructed with, or the one the last call with a user
\* argument gave; no other step of a run changes the user.
UserIsLastGiven ==
    /\ [][last' = "call" =>
             self'.user = IF call'.user \notin Falsy THEN call'.user
                          ELSE self.user]_vars
    /\ [][last' # "call" => self'.user = self.user]_vars
    /\ [](call.user \notin Falsy => self.user = call.user)

\* C15: a run started with a non-empty user argument is that user's, and a
\* run started without a user argument is the user's the session was
\* constructed with.
C15_AsStated ==
    [][(last' = "call" /\ call'.ran) =>
          self'.user = IF call'.user \notin Falsy THEN call'.user
                       ELSE InitUser]_vars

\* After a call by another user, a call without a user argument has started
\* a run.
C15_Witness ==
    /\ last = "call"
    /\ call.ran
    /\ call.user = None
    /\ self.user = "bob"
    /\ pc = "present"

\* The adapter made of a list of n elements has the ids 0 .. n-1 in
\* increasing order, the adapter made of a mapping has the mapping's keys in
\* iteration order, and the length of either is the number of its ids.
IdsAsMade ==
    \A arg \in AdapterInputs :
        SetData(arg) =>
            /\ "Sequence" \in arg.raw.kinds =>
                   /\ self'._data.cls = "Data_List"
                   /\ self'._data.ids = [k \in 1 .. arg.raw.size |-> k - 1]
            /\ "Mapping" \in arg.raw.kinds =>
                   /\ self'._data.cls = "Data_Dict"
                   /\ self'._data.ids = arg.raw.keys
            /\ len(self'._data) = arg.raw.size

\* As long as the adapter is the same object its ids are the same sequence.
IdsStable == last' # "data" => self'._data.ids = self._data.ids

\* What the adapters do: the ids are as the claim says when the adapter is
\* made, and those of the sequential adapter stay as they are.
AdapterIdsAsMade ==
    [][/\ IdsAsMade
       /\ self._data.cls = "Data_List" => IdsStable]_vars

\* C16: the sequential adapter's ids are 0 .. n-1 in increasing order, the
\* keyed adapter's ids are the mapping's keys in iteration order, the length
\* of an adapter is the number of its ids, and an adapter's ids are the same
\* sequence every time they are read, for its lifetime.
C16_AsStated == [][IdsAsMade /\ IdsStable]_vars

\* The caller has inserted a key in the mapping the session's keyed adapter
\* was made of, and the adapter has more ids than the mapping had keys.
C16_Witness ==
    /\ last = "mutate"
    /\ self._data.cls = "Data_Dict"
    /\ len(self._data) = MaxLen + 1

\* The session has just been loaded, and has the adapter of the session that
\* was saved when that one had save_data true, none when it had it false.
LoadedDataByFlag ==
    last = "load" =>
        /\ self.save_data = Source.save_data
        /\ Source.save_data =>
               /\ self._data = Source._data
               /\ self._data.ids = Source._data.ids
        /\ ~Source.save_data => NoDataLoaded(self)

\* The step is a call of save on a session constructed with the given
\* save_data.
Saves(flag) == last' \in {"save", "save failed"} /\ self.save_data = flag

\* What save and load do: when save returns, the pickle holds the data or
\* not as the flag says, and the loaded session has it or not; saving a
\* session with save_data false always returns.
SnapshotByFlag ==
    /\ [](file # <<>> =>
             (hasattr(file[1].state, "_data") <=> Source.save_data))
    /\ []LoadedDataByFlag
    /\ [][Saves(FALSE) => file' # <<>>]_vars

\* C17: the save_data flag the session was constructed with decides whether
\* the pickle holds the data: a session constructed with save_data true is
\* saved with its adapter and restores with it, with the same ids, and one
\* constructed with save_data false restores with no adapter.
C17_AsStated ==
    /\ [][Saves(TRUE) =>
             /\ file' # <<>>
             /\ hasattr(file'[1].state, "_data")
             /\ file'[1].state._data = self._data]_vars
    /\ [][Saves(FALSE) =>
             /\ file' # <<>>
             /\ ~hasattr(file'[1].state, "_data")]_vars
    /\ []LoadedDataByFlag

\* A session over a mapping, constructed with save_data true, was saved
\* after a run, and the file holds no pickle.
C17_Witness ==
    /\ last = "save failed"
    /\ self.save_data
    /\ self._data = Data_Dict(RawDict(Descending(MaxLen)))
    /\ annotated(self) # <<>>
    /\ file = <<>>

\* The work list as the call computed it: the requested ids, without those
\* that had a row when the call began unless redo was asked for.
Computed ==
    IF call.redo THEN call.requested
    ELSE SelectSeq(call.requested, LAMBDA id : ~has(call.before, id))

\* C18: the work list is the one the call computed for as long as the run
\* goes on and after it, whatever is committed meanwhile: the entries are
\* presented position by position, an entry whose id was committed at an
\* earlier position of the same run included, and a run that completes has
\* presented every entry.
C18_WorkListFixed ==
    call.ran =>
        /\ self.ids = Computed
        /\ IsPrefix(presented, Computed)
        /\ pc = "present" => Len(presented) = self.i
        /\ pc = "await" => Len(presented) = self.i + 1
        /\ pc = "completed" => presented = Computed

\* A call with redo=False over an explicit list that names an id twice has
\* presented that id twice, the second time with the row of the first.
C18_Witness ==
    /\ call.ran /\ call.given /\ ~call.redo
    /\ pc = "await"
    /\ Len(presented) = 2
    /\ presented[1] = presented[2]
    /\ ~has(call.before, presented[1])
    /\ has(annotated(self), current(self))

\* The step assigns to data a collection that matches no registered kind.
SetUnmatched ==
    \E arg \in ShapeInputs :
        arg.tag = "raw" /\ arg.raw.kinds = {} /\ SetData(arg)

\* Assigning a collection that matches no registered kind returns without
\* raising and leaves the session with no adapter, its merged view None, and
\* everything else as it was.
UnmatchedIsNoData ==
    SetUnmatched =>
        /\ NoDataLoaded(self')
        /\ merged(self') = None
        /\ pc' = "idle"
        /\ Except(self', "_data") = Except(self, "_data")

\* What the code does: load_data returns None without raising for a
\* collection that matches no registered kind, and a session given such data
\* is in the no-data state: its merged view is None and a call on it starts
\* no run and changes nothing but the user, when a user argument is given.
UnmatchedLeavesNoData ==
    /\ [][UnmatchedIsNoData]_vars
    /\ [](NoDataLoaded(self) <=> merged(self) = None)
    /\ [][(merged(self) = None /\ last' = "call") =>
             /\ ~call'.ran
             /\ merged(self') = None
             /\ <<pc', active', presented'>> = <<pc, active, presented>>
             /\ annotated(self') = annotated(self)
             /\ Cursor(self') = Cursor(self)
             /\ Except(self', "user") = Except(self, "user")]_vars

\* C19: load_data returns None without raising for a collection that
\* matches no registered kind, and a session given such data is in the
\* no-data state: its merged view is None and a call on it is a no-op.
C19_AsStated ==
    /\ [][UnmatchedIsNoData]_vars
    /\ [](NoDataLoaded(self) <=> merged(self) = None)
    /\ [][(merged(self) = None /\ last' = "call") =>
             /\ ~call'.ran
             /\ <<pc', active', presented'>> = <<pc, active, presented>>
             /\ self' = self]_vars

\* A session that has rows from a run over data has just been assigned a
\* collection that matches no registered kind.
C19_Witness ==
    /\ last = "data"
    /\ ~call.detached
    /\ NoDataLoaded(self)
    /\ merged(self) = None
    /\ annotated(self) # <<>>
    /\ hasattr(self, "ids")

====
